---- MODULE Spec2Model ----
(***************************************************************************)
(* Shipment lifecycle and partner assignment of the FastShip backend:      *)
(* ShipmentService (create / update / cancel), DeliveryPartnerService      *)
(* (assign_shipment), ShipmentEventService (create_event and the status    *)
(* notification that generates the delivery verification code) and the     *)
(* Redis verification-code store; with them the tag, review, partner and   *)
(* account handlers, the sliding-window rate limiter (check_rate_limit)    *)
(* and the in-process TaskQueue.                                           *)
(*                                                                         *)
(* Every handler is cut at its awaits on the relational store and on       *)
(* Redis, so that requests served by different sessions can interleave.    *)
(***************************************************************************)
EXTENDS Integers, Sequences, FiniteSets, TLC

\* ---------------------------------------------------------------- bounds
MaxShipments == 1
MaxEvents == 3
MaxReqs == 2
MaxFaults == 1
MaxTagged == 2
MaxAssigned == 2
MaxLogged == 5
MaxCalls == 3
MaxClock == 2
MaxWorkers == 2
MaxTasks == 3

\* ------------------------------------------------------- program constants
CodeMin == 100000
CodeMax == 999999
CodeTTL == 86400
EstimateSeconds == 259200
\* weights are in hundredths of a kilogram
MaxWeight == 2500
ExampleWeight == 125

\* ------------------------------------------------------------ value sets
None == "None"
NoLoc == 0
NoTime == 0 - 1

Partners == {"p1", "p2"}
Sellers == {"s1", "s2"}
\* sellers are interchangeable: shipments are submitted by the first one
Submitters == {"s1"}
Z1 == 11001
Z2 == 11002
Z3 == 11003
Zips == {Z1, Z2, Z3}
Accounts == Sellers \cup Partners
Reqs == 1..MaxReqs

placed == "placed"
in_transit == "in_transit"
out_for_delivery == "out_for_delivery"
delivered == "delivered"
cancelled == "cancelled"
ShipmentStatus == {placed, in_transit, out_for_delivery, delivered, cancelled}

\* results of a request
OK == "OK"
ValidationError == "ValidationError"
InvalidToken == "InvalidToken"
ClientNotAuthorized == "ClientNotAuthorized"
EntityNotFound == "EntityNotFound"
NothingToUpdate == "NothingToUpdate"
DeliveryPartnerNotAvailable == "DeliveryPartnerNotAvailable"
\* an exception of the database driver, not handled by the service
DatabaseError == "DatabaseError"
AlreadyExistsError == "AlreadyExistsError"
\* sqlalchemy.exc.IntegrityError: a unique constraint is violated
IntegrityError == "IntegrityError"
BadCredentials == "BadCredentials"
ClientNotVerified == "ClientNotVerified"
\* fastapi.exceptions.RequestValidationError: the body fails its schema
RequestValidationError == "RequestValidationError"

\* the HTTP status of a response: FastShipError.status of the exception's
\* class, as the handlers registered by setup_exception_handlers return it
status_code(result) ==
    CASE result = OK -> 200
      [] result = NothingToUpdate -> 400
      [] result \in {ClientNotAuthorized, ClientNotVerified, BadCredentials,
                     InvalidToken} -> 401
      [] result = EntityNotFound -> 404
      [] result = DeliveryPartnerNotAvailable -> 406
      [] result = AlreadyExistsError -> 409
      [] result \in {ValidationError, RequestValidationError} -> 422
      [] OTHER -> 500

TagName == {"express", "fragile"}
Ratings == {1, 5}

VARIABLES
    shipments,      \* table shipment: sequence of rows, the id is the index
    events,         \* table shipment_event: per shipment, the events in insertion order
    store,          \* Redis verification_code:{id} -> [code, ttl], per shipment
    maxCap,         \* DeliveryPartner.max_handling_capacity
    servicable,     \* DeliveryPartner.servicable_locations
    mail_client,    \* ShipmentEventService.mail_client is set
    CELERY_AVAILABLE, \* event.py module flag
    req,            \* requests in flight
    last,           \* the response most recently returned
    issued,         \* history: per shipment, the last two codes generated
    faults,         \* history: the commits and dispatches that have failed
    tagrows,        \* table tag: sequence of rows, the id is the index
    shipment_tag,   \* table shipment_tag: pairs <<shipment id, tag id>>
    reviews,        \* table review: sequence of rows
    locations,      \* table location: sequence of rows
    users,          \* tables seller and delivery_partner: the accounts
    side,           \* the latest response of a tag, review, partner or account operation
    clock,          \* time.time(), in seconds
    rate_limit,     \* Redis sorted set rate_limit:{identifier} and its expiry
    rate_log,       \* history: the calls of check_rate_limit that have returned
    queue,          \* TaskQueue._queue: the tasks put and not yet taken
    unfinished,     \* asyncio.Queue._unfinished_tasks of TaskQueue._queue
    running,        \* TaskQueue._running
    workers,        \* TaskQueue._workers: where each worker coroutine is
    stopper,        \* the call of TaskQueue.stop
    enqueued,       \* history: the tasks that were put
    executed        \* history: how often each task has been run to its end

vars == <<shipments, events, store, maxCap, servicable, mail_client,
          CELERY_AVAILABLE, req, last, issued, faults, tagrows, shipment_tag,
          reviews, locations, users, side, clock, rate_limit, rate_log,
          queue, unfinished, running, workers, stopper, enqueued, executed>>

\* the rate limiter and the task queue
limiter == <<clock, rate_limit, rate_log>>
task_queue == <<queue, unfinished, running, workers, stopper, enqueued,
                executed>>
platform == <<limiter, task_queue>>

\* the tables, the code store and the responses
backend == <<shipments, events, store, maxCap, servicable, mail_client,
             CELERY_AVAILABLE, last, issued, faults, tagrows, shipment_tag,
             reviews, locations, users, side>>

config == <<maxCap, servicable, mail_client, CELERY_AVAILABLE>>

others == <<tagrows, shipment_tag, reviews, locations, users, side, platform>>

\* ------------------------------------------------------------- payloads
NoEst == [given |-> FALSE, wall |-> NoTime, tz |-> None]
NoUpdate == [status |-> None, location |-> NoLoc, description |-> None,
             verification_code |-> None, estimated_delivery |-> NoEst]

\* estimated_delivery values, in seconds after the shipment's creation
EstValues == {[given |-> TRUE, wall |-> 500000, tz |-> "UTC"]}

PayloadCodes == {"100000", "999999"}

\* the ShipmentUpdate payloads the model submits: every status without a
\* code, delivered and cancelled with every code, every status with a
\* location, and the payloads without a status
UpdatePayloads ==
    {[NoUpdate EXCEPT !.status = s] : s \in ShipmentStatus \cup {None}}
    \cup {[NoUpdate EXCEPT !.status = s, !.verification_code = c] :
        s \in {delivered, cancelled}, c \in PayloadCodes}
    \cup {[NoUpdate EXCEPT !.status = s, !.location = Z2] :
        s \in ShipmentStatus \cup {None}}
    \cup {[NoUpdate EXCEPT !.description = "note"]}
    \cup {[NoUpdate EXCEPT !.estimated_delivery = e] : e \in EstValues}

\* ---------------------------------------------------------------- rows
NoRow == [seller |-> None, partner |-> None, destination |-> NoLoc,
          status |-> None, estimated_delivery |-> NoTime, weight |-> 0]
NoEvent == [status |-> None, location |-> NoLoc, description |-> None,
            created_at |-> 0]
NoCode == [code |-> None, ttl |-> 0]
NoSnap == [row |-> NoRow, events |-> <<>>]

Snap(sid) ==
    IF sid \in 1..Len(shipments)
    THEN [row |-> shipments[sid], events |-> events[sid]]
    ELSE NoSnap

Idle == [op |-> None, pc |-> "idle", sid |-> 0, actor |-> None,
         upd |-> NoUpdate, row |-> NoRow, old |-> NoSnap, evt |-> NoEvent,
         seen |-> None, order |-> <<>>, arg |-> None]

NoResponse == [op |-> None, sid |-> 0, actor |-> None, upd |-> NoUpdate,
               result |-> None, pre |-> NoSnap, post |-> NoSnap,
               seen |-> None, stored |-> NoCode, row |-> NoRow,
               timeline |-> <<>>]

NoIssue == [latest |-> None, previous |-> None]

\* an account that is not registered; verify_succeeded is history: a
\* verify_email call with a valid token has succeeded for the account
NoUser == [registered |-> FALSE, email_verified |-> FALSE,
           verify_succeeded |-> FALSE]

NoSide == [op |-> None, target |-> None, arg |-> None, result |-> None,
           pre |-> <<>>, post |-> <<>>]

\* the key rate_limit:{identifier} does not exist
NoKey == [zset |-> {}, expires |-> NoTime]

Workers == 1..MaxWorkers
Tasks == 1..MaxTasks

\* a worker that start() has not created
NoWorker == [pc |-> "none", task |-> 0]

NoStop == [pc |-> "idle", before |-> {}]

InFlight == {r \in Reqs : req[r].pc # "idle"}

RECURSIVE SumLen(_)
SumLen(ss) == IF ss = <<>> THEN 0 ELSE Len(Head(ss)) + SumLen(Tail(ss))

TotalEvents == SumLen(events)

\* a request that will append an event starts while the log has room for it;
\* the event of a delivery is always admitted
Room(maxEv) == TotalEvents + Cardinality(InFlight) < maxEv

InFlightCreates == {r \in Reqs : req[r].op = "create" /\ req[r].pc = "add"}

\* -------------------------------------------------------------- partners
\* mutant: cancelled shipments are not counted either
active_shipments_open(p) ==
    {i \in 1..Len(shipments) :
        shipments[i].partner = p
        /\ shipments[i].status \notin {delivered, cancelled}}

active_shipments(p) ==
    {i \in 1..Len(shipments) :
        shipments[i].partner = p /\ shipments[i].status # delivered}

current_handling_capacity(p) == maxCap[p] - Cardinality(active_shipments(p))

\* the retrieval orders of the unordered partner query
PartnerOrders == {<<"p1", "p2">>, <<"p2", "p1">>}

\* mutant: the query does not filter on the zip code
get_partner_by_zipcode_any(order, zipcode) == order

get_partner_by_zipcode(order, zipcode) ==
    SelectSeq(order, LAMBDA p : zipcode \in servicable[p])

\* mutant: a partner with no capacity left is still taken
RECURSIVE FirstWithCapacity_full(_)
FirstWithCapacity_full(eligible) ==
    IF eligible = <<>> THEN None
    ELSE IF current_handling_capacity(Head(eligible)) >= 0 THEN Head(eligible)
    ELSE FirstWithCapacity_full(Tail(eligible))

RECURSIVE FirstWithCapacity(_)
FirstWithCapacity(eligible) ==
    IF eligible = <<>> THEN None
    ELSE IF current_handling_capacity(Head(eligible)) > 0 THEN Head(eligible)
    ELSE FirstWithCapacity(Tail(eligible))

\* the partner assigned, or None when DeliveryPartnerNotAvailable is raised
assign_shipment(order, destination) ==
    FirstWithCapacity(get_partner_by_zipcode(order, destination))

\* ---------------------------------------------------------------- events
RECURSIVE InsertDesc(_, _)
InsertDesc(sorted, e) ==
    IF sorted = <<>> THEN <<e>>
    ELSE IF Head(sorted).created_at >= e.created_at
         THEN <<Head(sorted)>> \o InsertDesc(Tail(sorted), e)
         ELSE <<e>> \o sorted

RECURSIVE SortedDesc(_, _)
SortedDesc(evs, acc) ==
    IF evs = <<>> THEN acc ELSE SortedDesc(Tail(evs), InsertDesc(acc, Head(evs)))

\* mutant: the events in insertion order
timeline_insertion(evs) == evs

\* Shipment.timeline: sorted(events, key=created_at, reverse=True)
timeline(evs) == SortedDesc(evs, <<>>)

\* ShipmentEventService.get_latest_event: timeline[-1]
get_latest_event(evs) ==
    IF evs = <<>> THEN NoEvent ELSE timeline(evs)[Len(evs)]

generate_description(status, location) ==
    CASE status = placed -> "assigned delivery partner"
      [] status = out_for_delivery -> "shipment out for delivery"
      [] status = delivered -> "successfully delivered"
      [] status = cancelled -> "cancelled by seller"
      [] status = in_transit -> "scanned at " \o ToString(location)
      [] OTHER -> "status updated to " \o status

\* mutant: the description is always generated
new_event_generated(evs, destination, status, location, description) ==
    LET loc == IF location = NoLoc
               THEN IF evs # <<>> THEN get_latest_event(evs).location
                    ELSE destination
               ELSE location
    IN [status |-> status,
        location |-> loc,
        description |-> generate_description(status, loc),
        created_at |-> 0]

\* the event create_event builds from its arguments and the loaded events
new_event(evs, destination, status, location, description) ==
    LET loc == IF location = NoLoc
               THEN IF evs # <<>> THEN get_latest_event(evs).location
                    ELSE destination
               ELSE location
    IN [status |-> status,
        location |-> loc,
        description |-> IF description = None
                        THEN generate_description(status, loc)
                        ELSE description,
        created_at |-> 0]

\* create_event queues the status notification
notifies(status) == mail_client /\ status # in_transit /\ CELERY_AVAILABLE

\* -------------------------------------------------- verification codes
CodeValues == {CodeMin, CodeMax}

\* get_shipment_verification_code: client.get(key)
get_shipment_verification_code(sid) == store[sid].code

\* mutant: the key is set only if it does not exist (SET NX)
add_shipment_verification_code_nx(sid, code) ==
    IF store[sid].code # None THEN store
    ELSE [store EXCEPT ![sid] = [code |-> ToString(code), ttl |-> CodeTTL]]

\* add_shipment_verification_code: setex(key, 86400, str(code))
add_shipment_verification_code(sid, code) ==
    [store EXCEPT ![sid] = [code |-> ToString(code), ttl |-> CodeTTL]]

\* ------------------------------------------------------------ responses
Respond(r, rec, result) ==
    /\ last' = [op |-> rec.op, sid |-> rec.sid, actor |-> rec.actor,
                upd |-> rec.upd, result |-> result, pre |-> rec.old,
                post |-> IF rec.sid \in 1..Len(shipments')
                         THEN [row |-> shipments'[rec.sid],
                               events |-> events'[rec.sid]]
                         ELSE NoSnap,
                seen |-> rec.seen,
                stored |-> IF rec.sid \in 1..Len(store')
                           THEN store'[rec.sid] ELSE NoCode,
                row |-> rec.row,
                timeline |-> <<>>]
    /\ req' = [req EXCEPT ![r] = Idle]

CanStart(r, lim) ==
    /\ req[r].pc = "idle"
    /\ Cardinality(InFlight) < lim

InitStores ==
    /\ shipments = <<>>
    /\ events = <<>>
    /\ store = <<>>
    /\ maxCap = [p \in Partners |-> IF p = "p1" THEN 2 ELSE 1]
    /\ servicable = [p \in Partners |-> IF p = "p1" THEN {Z1} ELSE {Z1, Z2}]
    /\ mail_client = TRUE
    /\ CELERY_AVAILABLE \in BOOLEAN
    /\ req = [r \in Reqs |-> Idle]
    /\ last = NoResponse
    /\ issued = <<>>
    /\ faults = 0
    /\ tagrows = <<>>
    /\ shipment_tag = {}
    /\ reviews = <<>>
    /\ locations = <<Z1, Z2>>
    /\ side = NoSide
    /\ clock = 0
    /\ rate_limit = NoKey
    /\ rate_log = <<>>
    /\ queue = <<>>
    /\ unfinished = 0
    /\ running = FALSE
    /\ workers = [w \in Workers |-> NoWorker]
    /\ stopper = NoStop
    /\ enqueued = {}
    /\ executed = [t \in Tasks |-> 0]

\* no account exists yet
InitAuth ==
    /\ InitStores
    /\ users = [a \in Accounts |-> NoUser]

Init ==
    /\ InitStores
    /\ users = [a \in Accounts |->
                    [registered |-> TRUE, email_verified |-> TRUE,
                     verify_succeeded |-> TRUE]]

\* ---------------------------------------------------------------- create
\* submit_shipment, ShipmentService.add up to the partner assignment
StartCreate(r, lim, maxShip, maxEv, seller, destination, weight) ==
    /\ CanStart(r, lim)
    /\ UNCHANGED <<store, config, faults, others, issued>>
    /\ \E order \in PartnerOrders :
        LET partner == assign_shipment(order, destination)
            rec == [Idle EXCEPT !.op = "create", !.actor = seller,
                      !.order = order,
                      !.row = [seller |-> seller, partner |-> partner,
                               destination |-> destination, status |-> placed,
                               estimated_delivery |-> EstimateSeconds,
                               weight |-> weight]]
        IN IF partner = None
           THEN /\ UNCHANGED <<shipments, events>>
                /\ Respond(r, rec, DeliveryPartnerNotAvailable)
           ELSE /\ Room(maxEv)
                /\ Len(shipments) + Cardinality(InFlightCreates) < maxShip
                /\ req' = [req EXCEPT ![r] = [rec EXCEPT !.pc = "add"]]
                /\ UNCHANGED <<shipments, events, last>>

\* ShipmentService.add: self._add(new_shipment)
CreateAdd(r) ==
    /\ req[r].op = "create" /\ req[r].pc = "add"
    /\ shipments' = Append(shipments, req[r].row)
    /\ events' = Append(events, <<>>)
    /\ store' = Append(store, NoCode)
    /\ issued' = Append(issued, NoIssue)
    /\ req' = [req EXCEPT ![r] =
                [@ EXCEPT !.pc = "event", !.sid = Len(shipments) + 1,
                          !.evt = new_event(<<>>, req[r].row.destination, placed,
                                            req[r].row.destination,
                                            "assigned to " \o req[r].row.partner)]]
    /\ UNCHANGED <<config, faults, others, last>>

\* the weights submitted: around both ends of the accepted range
Weights == {0 - 1, 0, 1, MaxWeight, MaxWeight + 1}

\* mutant: the upper end of the range is excluded
weight_rejection_exclusive(weight) ==
    IF weight > 0 /\ weight < MaxWeight THEN None ELSE RequestValidationError

\* BaseShipment.weight: Field(gt=0, le=25)
weight_rejection(weight) ==
    IF weight > 0 /\ weight <= MaxWeight THEN None ELSE RequestValidationError

\* submit_shipment: the body is validated against ShipmentCreate before the
\* handler runs; a body that fails is answered without a call of the service
submit_shipment(r, lim, maxShip, maxEv, seller, destination, weight) ==
    IF weight_rejection(weight) # None
    THEN /\ CanStart(r, lim)
         /\ UNCHANGED <<shipments, events, store, config, faults, others, issued>>
         /\ Respond(r, [Idle EXCEPT !.op = "create", !.actor = seller,
                            !.row = [NoRow EXCEPT !.seller = seller,
                                        !.destination = destination,
                                        !.weight = weight]],
                    weight_rejection(weight))
    ELSE StartCreate(r, lim, maxShip, maxEv, seller, destination, weight)

\* mutant: the new event replaces the log
create_event_overwrite(r) ==
    /\ req[r].pc = "event"
    /\ UNCHANGED <<store, config, faults, others, issued>>
    /\ events' = [events EXCEPT ![req[r].sid] =
                    <<[req[r].evt EXCEPT !.created_at = TotalEvents + 1]>>]
    /\ UNCHANGED shipments
    /\ IF notifies(req[r].evt.status)
       THEN /\ req' = [req EXCEPT ![r].pc = "notify"]
            /\ UNCHANGED last
       ELSE Respond(r, req[r], OK)

\* ShipmentEventService.create_event: the commit of self._add(new_event)
\* raises; the writes committed before it stay
create_event_fails(r) ==
    /\ req[r].pc = "event"
    /\ faults < MaxFaults
    /\ faults' = faults + 1
    /\ UNCHANGED <<store, config, issued, others>>
    /\ UNCHANGED <<shipments, events>>
    /\ Respond(r, req[r], DatabaseError)

\* ShipmentEventService.get_shipment_timeline
get_shipment_timeline(r, lim, sid) ==
    /\ CanStart(r, lim)
    /\ last' = [NoResponse EXCEPT
                    !.op = "timeline", !.sid = sid, !.result = OK,
                    !.pre = Snap(sid), !.post = Snap(sid),
                    !.timeline = timeline(Snap(sid).events)]
    /\ UNCHANGED <<shipments, events, store, config, faults, others, req, issued>>

\* ShipmentEventService.create_event: self._add(new_event), then the
\* notification is queued
create_event(r) ==
    /\ req[r].pc = "event"
    /\ UNCHANGED <<store, config, faults, others, issued>>
    /\ events' = [events EXCEPT ![req[r].sid] =
                    Append(@, [req[r].evt EXCEPT !.created_at = TotalEvents + 1])]
    /\ UNCHANGED shipments
    /\ IF notifies(req[r].evt.status)
       THEN /\ req' = [req EXCEPT ![r].pc = "notify"]
            /\ UNCHANGED last
       ELSE Respond(r, req[r], OK)

\* mutant: the exception raised while queuing leaves the handler
send_status_notification_raises(r) ==
    /\ req[r].pc = "notify"
    /\ faults < MaxFaults
    /\ faults' = faults + 1
    /\ UNCHANGED <<store, issued, shipments, events, config, others>>
    /\ Respond(r, req[r], DatabaseError)

\* _send_status_notification_celery where queuing a task (or the write of
\* the code) raises: the except clause logs the exception and returns. For
\* out_for_delivery the code was stored, or not, before the exception
send_status_notification_fails(r) ==
    /\ req[r].pc = "notify"
    /\ faults < MaxFaults
    /\ faults' = faults + 1
    /\ \/ UNCHANGED <<store, issued>>
       \/ /\ req[r].evt.status = out_for_delivery
          /\ \E code \in CodeValues :
                /\ store' = add_shipment_verification_code(req[r].sid, code)
                /\ issued' = [issued EXCEPT ![req[r].sid] =
                        [latest |-> ToString(code), previous |-> @.latest]]
    /\ UNCHANGED <<shipments, events, config, others>>
    /\ Respond(r, req[r], OK)

\* _send_status_notification_celery: the tasks are queued; for
\* out_for_delivery the verification code is generated and stored first
send_status_notification(r) ==
    /\ req[r].pc = "notify"
    /\ IF req[r].evt.status = out_for_delivery
       THEN \E code \in CodeValues :
                /\ store' = add_shipment_verification_code(req[r].sid, code)
                /\ issued' = [issued EXCEPT ![req[r].sid] =
                        [latest |-> ToString(code), previous |-> @.latest]]
       ELSE UNCHANGED <<store, issued>>
    /\ UNCHANGED <<shipments, events>>
    /\ Respond(r, req[r], OK)
    /\ UNCHANGED <<config, faults, others>>

\* ---------------------------------------------------------------- update
\* mutant: any partner may update
update_rejection_any_partner(row, upd, partner) ==
    IF row.status = cancelled THEN ValidationError
    ELSE IF row.status = delivered THEN ValidationError
    ELSE IF upd.status = delivered
            /\ (upd.verification_code = None \/ upd.verification_code = "")
         THEN ValidationError
    ELSE None

\* mutant: the guard on delivered shipments is missing
update_rejection_delivered_open(row, upd, partner) ==
    IF row.status = cancelled THEN ValidationError
    ELSE IF row.partner # partner THEN ClientNotAuthorized
    ELSE IF upd.status = delivered
            /\ (upd.verification_code = None \/ upd.verification_code = "")
         THEN ValidationError
    ELSE None

\* mutant: a delivered update without a code goes on to the comparison
update_rejection_code_optional(row, upd, partner) ==
    IF row.status = cancelled THEN ValidationError
    ELSE IF row.status = delivered THEN ValidationError
    ELSE IF row.partner # partner THEN ClientNotAuthorized
    ELSE None

\* the checks ShipmentService.update makes before it reads the code store;
\* None when the update passes them
update_rejection(row, upd, partner) ==
    IF row.status = cancelled THEN ValidationError
    ELSE IF row.status = delivered THEN ValidationError
    ELSE IF row.partner # partner THEN ClientNotAuthorized
    ELSE IF upd.status = delivered
            /\ (upd.verification_code = None \/ upd.verification_code = "")
         THEN ValidationError
    ELSE None

\* mutant: any code is accepted once one is stored
code_rejection_presence_only(stored_code, upd) ==
    IF stored_code = None THEN InvalidToken ELSE None

\* mutant: any code is accepted while none is stored
code_rejection_absent_ok(stored_code, upd) ==
    IF stored_code # None /\ stored_code # upd.verification_code
    THEN InvalidToken
    ELSE None

\* the comparison of the stored code with the submitted one
code_rejection(stored_code, upd) ==
    IF stored_code = None \/ stored_code # upd.verification_code
    THEN InvalidToken
    ELSE None

\* the row after the field updates: estimated_delivery loses its tzinfo,
\* status is replaced when the payload carries one
updated_row(row, upd) ==
    [row EXCEPT
        !.estimated_delivery = IF upd.estimated_delivery.given
                               THEN upd.estimated_delivery.wall ELSE @,
        !.status = IF upd.status # None THEN upd.status ELSE @]

\* session.commit() writes the columns whose value differs from the loaded one
flush(dbrow, loaded, changed) ==
    [dbrow EXCEPT
        !.estimated_delivery =
            IF changed.estimated_delivery # loaded.estimated_delivery
            THEN changed.estimated_delivery ELSE @,
        !.status = IF changed.status # loaded.status THEN changed.status ELSE @]

\* mutant: an event only for a payload that carries a location
event_needed_location_only(old_status, upd) == upd.location # NoLoc

\* mutant: an event for every payload that carries a status
event_needed_any_status(old_status, upd) ==
    upd.status # None \/ upd.location # NoLoc

event_needed(old_status, upd) ==
    (upd.status # None /\ upd.status # old_status) \/ upd.location # NoLoc

\* the update will append an event that leaves the shipment open to further
\* updates: the log is bounded by refusing these when it is full
MayAppend(sid, old_status, upd) ==
    /\ event_needed(old_status, upd)
    /\ upd.status # delivered

\* update_shipment, ShipmentService.update up to the read of the code store
StartUpdate(r, lim, maxEv, sid, upd, partner) ==
    /\ CanStart(r, lim)
    /\ UNCHANGED <<store, config, faults, others, issued>>
    /\ LET rec == [Idle EXCEPT !.op = "update", !.sid = sid, !.actor = partner,
                      !.upd = upd, !.old = Snap(sid), !.row = Snap(sid).row]
           rejection == IF upd = NoUpdate THEN NothingToUpdate
                        ELSE IF sid \notin 1..Len(shipments) THEN EntityNotFound
                        ELSE update_rejection(rec.row, upd, partner)
       IN /\ UNCHANGED <<shipments, events>>
          /\ IF rejection # None THEN Respond(r, rec, rejection)
             ELSE /\ MayAppend(sid, rec.row.status, upd) => Room(maxEv)
                  /\ req' = [req EXCEPT ![r] =
                        [rec EXCEPT !.pc = IF upd.status = delivered
                                           THEN "verify" ELSE "commit"]]
                  /\ UNCHANGED last

\* ShipmentService.update: get_shipment_verification_code and its comparison
UpdateVerify(r) ==
    /\ req[r].op = "update" /\ req[r].pc = "verify"
    /\ UNCHANGED <<store, config, faults, others, issued>>
    /\ LET stored_code == get_shipment_verification_code(req[r].sid)
           rec == [req[r] EXCEPT !.seen = stored_code]
           rejection == code_rejection(stored_code, req[r].upd)
       IN /\ UNCHANGED <<shipments, events>>
          /\ IF rejection # None THEN Respond(r, rec, rejection)
             ELSE /\ req' = [req EXCEPT ![r] = [rec EXCEPT !.pc = "commit"]]
                  /\ UNCHANGED last

\* ShipmentService.update: the field updates, self._update(shipment) and the
\* decision to create an event
UpdateCommit(r) ==
    /\ req[r].op = "update" /\ req[r].pc = "commit"
    /\ UNCHANGED <<store, config, faults, others, issued>>
    /\ LET sid == req[r].sid
           upd == req[r].upd
           old_status == req[r].row.status
           row == flush(shipments[sid], req[r].row, updated_row(req[r].row, upd))
       IN /\ shipments' = [shipments EXCEPT ![sid] = row]
          /\ UNCHANGED events
          /\ IF event_needed(old_status, upd)
             THEN /\ req' = [req EXCEPT ![r] =
                        [@ EXCEPT !.pc = "event",
                            !.evt = new_event(events[sid], row.destination,
                                       IF upd.status # None THEN upd.status
                                       ELSE old_status,
                                       upd.location, upd.description)]]
                  /\ UNCHANGED last
             ELSE Respond(r, req[r], OK)

\* ---------------------------------------------------------------- cancel
\* mutant: any seller may cancel
cancel_rejection_open(row, seller) == None

cancel_rejection(row, seller) ==
    IF row.seller # seller THEN ClientNotAuthorized ELSE None

\* cancel_shipment, ShipmentService.cancel up to the ownership check
StartCancel(r, lim, maxEv, sid, seller) ==
    /\ CanStart(r, lim)
    /\ UNCHANGED <<store, config, faults, others, issued>>
    /\ LET rec == [Idle EXCEPT !.op = "cancel", !.sid = sid, !.actor = seller,
                      !.old = Snap(sid), !.row = Snap(sid).row]
           rejection == IF sid \notin 1..Len(shipments) THEN EntityNotFound
                        ELSE cancel_rejection(rec.row, seller)
       IN /\ UNCHANGED <<shipments, events>>
          /\ IF rejection # None THEN Respond(r, rec, rejection)
             ELSE /\ Room(maxEv)
                  /\ req' = [req EXCEPT ![r] = [rec EXCEPT !.pc = "commit"]]
                  /\ UNCHANGED last

\* mutant: the cancelled shipment is taken from its partner
CancelCommit_unassign(r) ==
    /\ req[r].op = "cancel" /\ req[r].pc = "commit"
    /\ LET sid == req[r].sid
           row == flush(shipments[sid], req[r].row,
                        [req[r].row EXCEPT !.status = cancelled])
       IN /\ shipments' = [shipments EXCEPT ![sid] = [row EXCEPT !.partner = None]]
          /\ req' = [req EXCEPT ![r] =
                [@ EXCEPT !.pc = "event",
                    !.evt = new_event(events[sid], row.destination, cancelled,
                                      NoLoc, "cancelled by seller")]]
    /\ UNCHANGED <<events, store, config, faults, others, last, issued>>

\* ShipmentService.cancel: status = cancelled and self._update(shipment)
CancelCommit(r) ==
    /\ req[r].op = "cancel" /\ req[r].pc = "commit"
    /\ LET sid == req[r].sid
           row == flush(shipments[sid], req[r].row,
                        [req[r].row EXCEPT !.status = cancelled])
       IN /\ shipments' = [shipments EXCEPT ![sid] = row]
          /\ req' = [req EXCEPT ![r] =
                [@ EXCEPT !.pc = "event",
                    !.evt = new_event(events[sid], row.destination, cancelled,
                                      NoLoc, "cancelled by seller")]]
    /\ UNCHANGED <<events, store, config, faults, others, last, issued>>

\* ------------------------------------------------------------ key expiry
\* Redis drops the key when the ttl given to setex has run out
Expire(sid) ==
    /\ sid \in 1..Len(store)
    /\ store[sid].code # None
    /\ store' = [store EXCEPT ![sid] = NoCode]
    /\ UNCHANGED <<shipments, events, config, faults, others, req, last, issued>>

\* ------------------------------------------------------------------ tags
\* select(Tag).where(Tag.name == tag_name): the id of the first row, or 0
TagIdOf(rows, tag_name) ==
    IF \E t \in 1..Len(rows) : rows[t] = tag_name
    THEN CHOOSE t \in 1..Len(rows) :
            /\ rows[t] = tag_name
            /\ \A u \in 1..(t - 1) : rows[u] # tag_name
    ELSE 0

\* the tag names a shipment carries
TagsOf(sid) == {tagrows[x[2]] : x \in {y \in shipment_tag : y[1] = sid}}

TagSets == [sid \in 1..Len(shipments) |-> TagsOf(sid)]

\* mutant: adding a tag the shipment carries is accepted
add_tag_idempotent(sid, tag_name) ==
    /\ InFlight = {}
    /\ UNCHANGED <<shipments, events, store, config, faults, platform, req, last, issued,
                   reviews, locations, users>>
    /\ IF sid \notin 1..Len(shipments)
       THEN /\ UNCHANGED <<tagrows, shipment_tag>>
            /\ side' = [op |-> "add_tag", target |-> sid, arg |-> tag_name,
                        result |-> EntityNotFound, pre |-> TagSets, post |-> TagSets]
       ELSE LET rows == IF TagIdOf(tagrows, tag_name) = 0
                        THEN Append(tagrows, tag_name) ELSE tagrows
                tag == TagIdOf(rows, tag_name)
            IN /\ tagrows' = rows
               /\ shipment_tag' = shipment_tag \cup {<<sid, tag>>}
               /\ side' = [op |-> "add_tag", target |-> sid, arg |-> tag_name,
                           result |-> OK, pre |-> TagSets, post |-> TagSets']

\* ShipmentService.add_tag
add_tag(sid, tag_name) ==
    /\ InFlight = {}
    /\ UNCHANGED <<shipments, events, store, config, faults, platform, req, last, issued,
                   reviews, locations, users>>
    /\ IF sid \notin 1..Len(shipments)
       THEN /\ UNCHANGED <<tagrows, shipment_tag>>
            /\ side' = [op |-> "add_tag", target |-> sid, arg |-> tag_name,
                        result |-> EntityNotFound, pre |-> TagSets, post |-> TagSets]
       ELSE LET rows == IF TagIdOf(tagrows, tag_name) = 0
                        THEN Append(tagrows, tag_name) ELSE tagrows
                tag == TagIdOf(rows, tag_name)
            IN /\ tagrows' = rows
               /\ IF <<sid, tag>> \in shipment_tag
                  THEN /\ UNCHANGED shipment_tag
                       /\ side' = [op |-> "add_tag", target |-> sid,
                                   arg |-> tag_name, result |-> AlreadyExistsError,
                                   pre |-> TagSets, post |-> TagSets']
                  ELSE /\ shipment_tag' = shipment_tag \cup {<<sid, tag>>}
                       /\ side' = [op |-> "add_tag", target |-> sid,
                                   arg |-> tag_name, result |-> OK,
                                   pre |-> TagSets, post |-> TagSets']

\* the response of an add_tag request that was cut at its awaits
AddTagResponse(rec, result) ==
    [op |-> "add_tag", target |-> rec.sid, arg |-> rec.arg.tag_name,
     result |-> result, pre |-> rec.arg.pre, post |-> TagSets']

\* ShipmentService.add_tag up to the creation of the Tag: the shipment and
\* its tags are loaded and the Tag is selected by name
StartAddTag(r, lim, sid, tag_name) ==
    /\ CanStart(r, lim)
    /\ UNCHANGED <<shipments, events, store, config, faults, platform, last, issued,
                   tagrows, shipment_tag, reviews, locations, users>>
    /\ IF sid \notin 1..Len(shipments)
       THEN /\ side' = [op |-> "add_tag", target |-> sid, arg |-> tag_name,
                        result |-> EntityNotFound, pre |-> TagSets,
                        post |-> TagSets]
            /\ UNCHANGED req
       ELSE LET tag == TagIdOf(tagrows, tag_name)
                rec == [Idle EXCEPT !.op = "add_tag", !.sid = sid,
                          !.arg = [tag_name |-> tag_name, tag |-> tag,
                                   tags |-> {x[2] : x \in
                                        {y \in shipment_tag : y[1] = sid}},
                                   pre |-> TagSets]]
            IN /\ req' = [req EXCEPT ![r] =
                    [rec EXCEPT !.pc = IF tag = 0 THEN "tag" ELSE "link"]]
               /\ UNCHANGED side

\* ShipmentService.add_tag: self._add(tag) for a name that was not found;
\* tag.name is not unique
AddTagCreate(r) ==
    /\ req[r].op = "add_tag" /\ req[r].pc = "tag"
    /\ tagrows' = Append(tagrows, req[r].arg.tag_name)
    /\ req' = [req EXCEPT ![r] =
                [@ EXCEPT !.pc = "link", !.arg.tag = Len(tagrows) + 1]]
    /\ UNCHANGED <<shipments, events, store, config, faults, platform, last, issued,
                   shipment_tag, reviews, locations, users, side>>

\* ShipmentService.add_tag: the check against the tags that were loaded,
\* shipment.tags.append(tag) and the commit; (shipment_id, tag_id) is the
\* primary key of shipment_tag
AddTagLink(r) ==
    /\ req[r].op = "add_tag" /\ req[r].pc = "link"
    /\ UNCHANGED <<shipments, events, store, config, faults, platform, last, issued,
                   tagrows, reviews, locations, users>>
    /\ LET link == <<req[r].sid, req[r].arg.tag>>
       IN IF req[r].arg.tag \in req[r].arg.tags
          THEN /\ UNCHANGED shipment_tag
               /\ side' = AddTagResponse(req[r], AlreadyExistsError)
          ELSE IF link \in shipment_tag
          THEN /\ UNCHANGED shipment_tag
               /\ side' = AddTagResponse(req[r], IntegrityError)
          ELSE /\ shipment_tag' = shipment_tag \cup {link}
               /\ side' = AddTagResponse(req[r], OK)
    /\ req' = [req EXCEPT ![r] = Idle]

\* mutant: every tag of the shipment is removed
remove_tag_all(sid, tag_name) ==
    /\ InFlight = {}
    /\ UNCHANGED <<shipments, events, store, config, faults, platform, req, last, issued,
                   reviews, locations, users, tagrows>>
    /\ LET tag == TagIdOf(tagrows, tag_name)
       IN IF sid \notin 1..Len(shipments) \/ tag = 0
             \/ <<sid, tag>> \notin shipment_tag
          THEN /\ UNCHANGED shipment_tag
               /\ side' = [op |-> "remove_tag", target |-> sid, arg |-> tag_name,
                           result |-> EntityNotFound,
                           pre |-> TagSets, post |-> TagSets]
          ELSE /\ shipment_tag' = {y \in shipment_tag : y[1] # sid}
               /\ side' = [op |-> "remove_tag", target |-> sid, arg |-> tag_name,
                           result |-> OK, pre |-> TagSets, post |-> TagSets']

\* ShipmentService.remove_tag
remove_tag(sid, tag_name) ==
    /\ InFlight = {}
    /\ UNCHANGED <<shipments, events, store, config, faults, platform, req, last, issued,
                   reviews, locations, users, tagrows>>
    /\ LET tag == TagIdOf(tagrows, tag_name)
       IN IF sid \notin 1..Len(shipments) \/ tag = 0
             \/ <<sid, tag>> \notin shipment_tag
          THEN /\ UNCHANGED shipment_tag
               /\ side' = [op |-> "remove_tag", target |-> sid, arg |-> tag_name,
                           result |-> EntityNotFound,
                           pre |-> TagSets, post |-> TagSets]
          ELSE /\ shipment_tag' = shipment_tag \ {<<sid, tag>>}
               /\ side' = [op |-> "remove_tag", target |-> sid, arg |-> tag_name,
                           result |-> OK, pre |-> TagSets, post |-> TagSets']

\* --------------------------------------------------------------- reviews
\* the url-safe tokens presented: signed for a use (the salt of the
\* serializer) and either within max_age or not
ReviewTokens ==
    [id : 1..MaxShipments, salt : {"review", None}, expired : BOOLEAN]

\* decode_url_safe_token: the data of the token, or nothing on BadSignature
\* and SignatureExpired
decode_url_safe_token(token, salt) ==
    IF token.salt = salt /\ ~token.expired THEN <<token.id>> ELSE <<>>

\* the rows of table review for a shipment
ReviewsOf(sid) == {i \in 1..Len(reviews) : reviews[i].shipment_id = sid}

\* mutant: the existing review is not looked at
rate_rejection_no_check(token) ==
    IF decode_url_safe_token(token, "review") = <<>> THEN InvalidToken
    ELSE IF token.id \notin 1..Len(shipments) THEN EntityNotFound
    ELSE None

\* the checks of ShipmentService.rate before the review is added
rate_rejection(token) ==
    IF decode_url_safe_token(token, "review") = <<>> THEN InvalidToken
    ELSE IF token.id \notin 1..Len(shipments) THEN EntityNotFound
    ELSE IF ReviewsOf(token.id) # {} THEN AlreadyExistsError
    ELSE None

\* the response of a rate request
RateResponse(rec, result) ==
    [op |-> "rate", target |-> rec.sid, arg |-> rec.arg.token,
     result |-> result, pre |-> rec.arg.pre, post |-> reviews']

\* submit_review, ShipmentService.rate up to self._add(new_review)
StartRate(r, lim, token, rating) ==
    /\ CanStart(r, lim)
    /\ UNCHANGED <<shipments, events, store, config, faults, platform, last, issued,
                   tagrows, shipment_tag, reviews, locations, users>>
    /\ LET rec == [Idle EXCEPT !.op = "rate", !.sid = token.id,
                      !.arg = [token |-> token, rating |-> rating,
                               pre |-> reviews]]
           rejection == rate_rejection(token)
       IN IF rejection # None
          THEN /\ side' = RateResponse(rec, rejection)
               /\ UNCHANGED req
          ELSE /\ req' = [req EXCEPT ![r] = [rec EXCEPT !.pc = "review"]]
               /\ UNCHANGED side

\* ShipmentService.rate: self._add(new_review); review.shipment_id is unique
RateAdd(r) ==
    /\ req[r].op = "rate" /\ req[r].pc = "review"
    /\ UNCHANGED <<shipments, events, store, config, faults, platform, last, issued,
                   tagrows, shipment_tag, locations, users>>
    /\ IF ReviewsOf(req[r].sid) # {}
       THEN /\ UNCHANGED reviews
            /\ side' = RateResponse(req[r], IntegrityError)
       ELSE /\ reviews' = Append(reviews, [shipment_id |-> req[r].sid,
                                           rating |-> req[r].arg.rating])
            /\ side' = RateResponse(req[r], OK)
    /\ req' = [req EXCEPT ![r] = Idle]

\* -------------------------------------------------------------- locations
\* the duplicate-free lists of zip codes a partner may submit
RECURSIVE ZipLists(_)
ZipLists(zs) ==
    IF zs = {} THEN {<<>>}
    ELSE {<<>>} \cup UNION {{<<z>> \o l : l \in ZipLists(zs \ {z})} : z \in zs}

NoPartnerUpdate == [servicable_locations |-> <<>>, max_handling_capacity |-> 0]

\* DeliveryPartnerUpdate: servicable_locations has min_length 1,
\* max_handling_capacity is > 0; <<>> and 0 stand for a field left out
PartnerUpdates ==
    [servicable_locations : ZipLists(Zips), max_handling_capacity : {0, 2}]

\* mutant: a Location is created for every zip submitted
RECURSIVE get_or_create_locations_always(_, _)
get_or_create_locations_always(rows, zips) ==
    IF zips = <<>> THEN rows
    ELSE get_or_create_locations_always(Append(rows, Head(zips)), Tail(zips))

\* update_delivery_partner: for each zip, the Location is selected and, when
\* there is none, created
RECURSIVE get_or_create_locations(_, _)
get_or_create_locations(rows, zips) ==
    IF zips = <<>> THEN rows
    ELSE get_or_create_locations(
            IF \E k \in 1..Len(rows) : rows[k] = Head(zips)
            THEN rows ELSE Append(rows, Head(zips)),
            Tail(zips))

PartnerSnap(partner) ==
    [servicable |-> servicable[partner], locations |-> locations]

\* update_delivery_partner, for the partner that is logged in
update_delivery_partner(partner, partner_update) ==
    /\ InFlight = {}
    /\ UNCHANGED <<shipments, events, store, mail_client, CELERY_AVAILABLE,
                   faults, platform, req, last, issued, tagrows, shipment_tag, reviews,
                   users>>
    /\ IF partner_update = NoPartnerUpdate
       THEN /\ UNCHANGED <<maxCap, servicable, locations>>
            /\ side' = [op |-> "update_partner", target |-> partner,
                        arg |-> partner_update, result |-> NothingToUpdate,
                        pre |-> PartnerSnap(partner),
                        post |-> PartnerSnap(partner)]
       ELSE LET zips == partner_update.servicable_locations
            IN /\ maxCap' = IF partner_update.max_handling_capacity # 0
                            THEN [maxCap EXCEPT ![partner] =
                                    partner_update.max_handling_capacity]
                            ELSE maxCap
               /\ locations' = get_or_create_locations(locations, zips)
               /\ servicable' = IF zips # <<>>
                                THEN [servicable EXCEPT ![partner] =
                                        {zips[k] : k \in 1..Len(zips)}]
                                ELSE servicable
               /\ side' = [op |-> "update_partner", target |-> partner,
                           arg |-> partner_update, result |-> OK,
                           pre |-> PartnerSnap(partner),
                           post |-> PartnerSnap(partner)']

\* --------------------------------------------------------------- accounts
\* the service a request is routed to, and the accounts of its table
Kinds == {"seller", "partner"}
AccountsOf(kind) == IF kind = "seller" THEN Sellers ELSE Partners

\* the url-safe tokens presented to /verify
VerifyTokens ==
    [id : Accounts, salt : {None, "password-reset"}, expired : BOOLEAN]

\* UserService._add_user: the email is unique
add_user(kind, account) ==
    /\ InFlight = {}
    /\ account \in AccountsOf(kind)
    /\ UNCHANGED <<shipments, events, store, config, faults, platform, req, last, issued,
                   tagrows, shipment_tag, reviews, locations>>
    /\ IF users[account].registered
       THEN /\ UNCHANGED users
            /\ side' = [op |-> "signup", target |-> account, arg |-> kind,
                        result |-> AlreadyExistsError,
                        pre |-> <<users[account]>>, post |-> <<users[account]>>]
       ELSE /\ users' = [users EXCEPT ![account] =
                            [NoUser EXCEPT !.registered = TRUE]]
            /\ side' = [op |-> "signup", target |-> account, arg |-> kind,
                        result |-> OK,
                        pre |-> <<users[account]>>, post |-> <<users'[account]>>]

\* UserService.verify_email
verify_email(kind, token) ==
    /\ InFlight = {}
    /\ UNCHANGED <<shipments, events, store, config, faults, platform, req, last, issued,
                   tagrows, shipment_tag, reviews, locations>>
    /\ LET account == token.id
           result == IF decode_url_safe_token(token, None) = <<>> THEN InvalidToken
                     ELSE IF account \notin AccountsOf(kind)
                             \/ ~users[account].registered THEN EntityNotFound
                     ELSE OK
       IN /\ users' = IF result = OK
                      THEN [users EXCEPT ![account] =
                              [@ EXCEPT !.email_verified = TRUE,
                                        !.verify_succeeded = TRUE]]
                      ELSE users
          /\ side' = [op |-> "verify_email", target |-> account, arg |-> token,
                      result |-> result,
                      pre |-> <<users[account]>>, post |-> <<users'[account]>>]

\* mutant: the verification of the email is not required
generate_token_rejection_open(user, password_ok, require_verification) ==
    IF ~user.registered \/ ~password_ok THEN BadCredentials
    ELSE None

\* the checks of UserService._generate_token
generate_token_rejection(user, password_ok, require_verification) ==
    IF ~user.registered \/ ~password_ok THEN BadCredentials
    ELSE IF require_verification /\ ~user.email_verified THEN ClientNotVerified
    ELSE None

\* SellerService.token and DeliveryPartnerService.token
generate_token(kind, account, password_ok) ==
    /\ InFlight = {}
    /\ UNCHANGED <<shipments, events, store, config, faults, platform, req, last, issued,
                   tagrows, shipment_tag, reviews, locations, users>>
    /\ LET user == IF account \in AccountsOf(kind) THEN users[account]
                   ELSE NoUser
           rejection == generate_token_rejection(user, password_ok, TRUE)
       IN side' = [op |-> "token", target |-> account,
                   arg |-> [kind |-> kind, password_ok |-> password_ok],
                   result |-> IF rejection # None THEN rejection ELSE OK,
                   pre |-> <<user>>, post |-> <<user>>]

\* ----------------------------------------------------------- rate limit
\* the limit the middleware passes: requests per window of seconds
RateLimit == [requests |-> 2, window |-> 2]

\* the key as Redis answers for it now: gone once its expiry has passed
LiveKey ==
    IF rate_limit.expires # NoTime /\ clock >= rate_limit.expires
    THEN NoKey ELSE rate_limit

\* a key whose sorted set is empty does not exist
Stored(key) == IF key.zset = {} THEN NoKey ELSE key

\* check_rate_limit up to its first command: now = int(time.time())
check_rate_limit(r, lim) ==
    /\ CanStart(r, lim)
    /\ Len(rate_log) + Cardinality(InFlight) < MaxCalls
    /\ req' = [req EXCEPT ![r] =
                [Idle EXCEPT !.op = "check_rate_limit",
                             !.pc = "zremrangebyscore",
                             !.arg = [now |-> clock, count |-> 0]]]
    /\ UNCHANGED <<backend, limiter, task_queue>>

\* zremrangebyscore(key, 0, now - window)
zremrangebyscore(r) ==
    /\ req[r].op = "check_rate_limit" /\ req[r].pc = "zremrangebyscore"
    /\ rate_limit' = Stored([LiveKey EXCEPT !.zset =
                        {x \in @ : x > req[r].arg.now - RateLimit.window}])
    /\ req' = [req EXCEPT ![r].pc = "zcard"]
    /\ UNCHANGED <<backend, clock, rate_log, task_queue>>

\* zcard(key) and the comparison with the limit
zcard(r) ==
    /\ req[r].op = "check_rate_limit" /\ req[r].pc = "zcard"
    /\ LET current_count == Cardinality(LiveKey.zset)
       IN req' = [req EXCEPT ![r] =
                    [@ EXCEPT !.arg.count = current_count,
                              !.pc = IF current_count >= RateLimit.requests
                                     THEN "zrange" ELSE "zadd"]]
    /\ UNCHANGED <<backend, limiter, task_queue>>

\* the limit is reached: zrange(key, 0, 0) for retry_after, allowed = False
zrange(r) ==
    /\ req[r].op = "check_rate_limit" /\ req[r].pc = "zrange"
    /\ rate_log' = Append(rate_log, [now |-> req[r].arg.now, allowed |-> FALSE])
    /\ req' = [req EXCEPT ![r] = Idle]
    /\ UNCHANGED <<backend, clock, rate_limit, task_queue>>

\* zadd(key, {str(now): now}): the member is the second, so a member of the
\* same second is replaced, not added
zadd(r) ==
    /\ req[r].op = "check_rate_limit" /\ req[r].pc = "zadd"
    /\ rate_limit' = [LiveKey EXCEPT !.zset = @ \cup {req[r].arg.now}]
    /\ req' = [req EXCEPT ![r].pc = "expire"]
    /\ UNCHANGED <<backend, clock, rate_log, task_queue>>

\* expire(key, window), allowed = True
expire(r) ==
    /\ req[r].op = "check_rate_limit" /\ req[r].pc = "expire"
    /\ rate_limit' = IF LiveKey.zset = {} THEN NoKey
                     ELSE [LiveKey EXCEPT !.expires = clock + RateLimit.window]
    /\ rate_log' = Append(rate_log, [now |-> req[r].arg.now, allowed |-> TRUE])
    /\ req' = [req EXCEPT ![r] = Idle]
    /\ UNCHANGED <<backend, clock, task_queue>>

\* a second passes
Tick ==
    /\ clock < MaxClock
    /\ clock' = clock + 1
    /\ UNCHANGED <<backend, req, rate_limit, rate_log, task_queue>>

\* ----------------------------------------------------------- task queue
\* TaskQueue.start, called once
start ==
    /\ ~running
    /\ \A w \in Workers : workers[w].pc = "none"
    /\ running' = TRUE
    /\ workers' = [w \in Workers |-> [pc |-> "created", task |-> 0]]
    /\ UNCHANGED <<backend, req, limiter, queue, unfinished, stopper, enqueued,
                   executed>>

\* TaskQueue.enqueue: self._queue.put((func, args, kwargs))
enqueue(task) ==
    /\ task \notin enqueued
    /\ queue' = Append(queue, task)
    /\ unfinished' = unfinished + 1
    /\ enqueued' = enqueued \cup {task}
    /\ UNCHANGED <<backend, req, limiter, running, workers, stopper, executed>>

\* where a worker goes when it evaluates while self._running
loop == IF running THEN "get" ELSE "stopped"

\* TaskQueue._worker: the coroutine is scheduled for the first time
worker_start(w) ==
    /\ workers[w].pc = "created"
    /\ workers' = [workers EXCEPT ![w].pc = loop]
    /\ UNCHANGED <<backend, req, limiter, queue, unfinished, running, stopper,
                   enqueued, executed>>

\* TaskQueue._worker: self._queue.get() returns a task
worker_get(w) ==
    /\ workers[w].pc = "get"
    /\ queue # <<>>
    /\ workers' = [workers EXCEPT ![w] = [pc |-> "run", task |-> Head(queue)]]
    /\ queue' = Tail(queue)
    /\ UNCHANGED <<backend, req, limiter, unfinished, running, stopper,
                   enqueued, executed>>

\* TaskQueue._worker: wait_for times out on the empty queue; continue
worker_timeout(w) ==
    /\ workers[w].pc = "get"
    /\ queue = <<>>
    /\ workers' = [workers EXCEPT ![w].pc = loop]
    /\ UNCHANGED <<backend, req, limiter, queue, unfinished, running, stopper,
                   enqueued, executed>>

\* TaskQueue._worker: the task has run to its end, self._queue.task_done()
worker_done(w) ==
    /\ workers[w].pc = "run"
    /\ executed' = [executed EXCEPT ![workers[w].task] = @ + 1]
    /\ unfinished' = unfinished - 1
    /\ workers' = [workers EXCEPT ![w] = [pc |-> loop, task |-> 0]]
    /\ UNCHANGED <<backend, req, limiter, queue, running, stopper, enqueued>>

\* TaskQueue.stop up to await self._queue.join()
stop ==
    /\ stopper.pc = "idle"
    /\ running
    /\ running' = FALSE
    /\ stopper' = [pc |-> "join", before |-> enqueued]
    /\ UNCHANGED <<backend, req, limiter, queue, unfinished, workers, enqueued,
                   executed>>

\* TaskQueue.stop: join() returns once no task is unfinished, and every
\* worker is cancelled
stop_join ==
    /\ stopper.pc = "join"
    /\ unfinished = 0
    /\ workers' = [w \in Workers |->
                    IF workers[w].pc = "stopped" THEN workers[w]
                    ELSE [pc |-> "cancelled", task |-> 0]]
    /\ stopper' = [stopper EXCEPT !.pc = "gather"]
    /\ UNCHANGED <<backend, req, limiter, queue, unfinished, running, enqueued,
                   executed>>

\* TaskQueue.stop: gather(*self._workers) returns
stop_gather ==
    /\ stopper.pc = "gather"
    /\ \A w \in Workers : workers[w].pc \in {"stopped", "cancelled"}
    /\ stopper' = [stopper EXCEPT !.pc = "returned"]
    /\ UNCHANGED <<backend, req, limiter, queue, unfinished, running, workers,
                   enqueued, executed>>

\* ------------------------------------------------------- specifications
Step(r, lim, maxShip) ==
    \/ \E seller \in Submitters, destination \in Zips :
            StartCreate(r, lim, maxShip, MaxEvents, seller, destination,
                        ExampleWeight)
    \/ CreateAdd(r)
    \/ \E sid \in 1..maxShip, upd \in UpdatePayloads, partner \in Partners :
            StartUpdate(r, lim, MaxEvents, sid, upd, partner)
    \/ UpdateVerify(r)
    \/ UpdateCommit(r)
    \/ \E sid \in 1..maxShip, seller \in Sellers :
            StartCancel(r, lim, MaxEvents, sid, seller)
    \/ CancelCommit(r)
    \/ create_event(r)
    \/ send_status_notification(r)
    \/ \E sid \in 1..maxShip : get_shipment_timeline(r, lim, sid)

\* requests are served one at a time
Next ==
    \/ Step(1, 1, MaxShipments)
    \/ \E sid \in 1..MaxShipments : Expire(sid)

Spec == Init /\ [][Next]_vars

\* the payloads submitted while commits may fail
FaultPayloads ==
    {[NoUpdate EXCEPT !.status = s] : s \in {placed, in_transit, out_for_delivery}}

\* create, update and cancel served one at a time, where the commit of an
\* event and the dispatch of a notification may fail
NextFault ==
    \/ \E seller \in Submitters, destination \in Zips :
            StartCreate(1, 1, MaxShipments, MaxEvents, seller, destination,
                        ExampleWeight)
    \/ CreateAdd(1)
    \/ \E sid \in 1..MaxShipments, upd \in FaultPayloads, partner \in Partners :
            StartUpdate(1, 1, MaxEvents, sid, upd, partner)
    \/ UpdateCommit(1)
    \/ \E sid \in 1..MaxShipments, seller \in Sellers :
            StartCancel(1, 1, MaxEvents, sid, seller)
    \/ CancelCommit(1)
    \/ create_event(1)
    \/ create_event_fails(1)
    \/ send_status_notification(1)
    \/ send_status_notification_fails(1)

SpecFault == Init /\ [][NextFault]_vars

\* the payloads submitted next to the tag and review operations
FramePayloads ==
    {[NoUpdate EXCEPT !.status = in_transit]}
    \cup {[NoUpdate EXCEPT !.estimated_delivery = e] : e \in EstValues}

\* every operation on an existing shipment, served one at a time
NextFrame ==
    \/ \E seller \in Submitters :
            StartCreate(1, 1, MaxShipments, MaxEvents, seller, Z1,
                        ExampleWeight)
    \/ CreateAdd(1)
    \/ \E sid \in 1..MaxShipments, upd \in FramePayloads, partner \in Partners :
            StartUpdate(1, 1, MaxEvents, sid, upd, partner)
    \/ UpdateCommit(1)
    \/ \E sid \in 1..MaxShipments, seller \in Sellers :
            StartCancel(1, 1, MaxEvents, sid, seller)
    \/ CancelCommit(1)
    \/ create_event(1)
    \/ send_status_notification(1)
    \/ \E sid \in 1..MaxShipments : add_tag(sid, "express")
    \/ \E sid \in 1..MaxShipments : remove_tag(sid, "express")
    \/ \E token \in ReviewTokens : StartRate(1, 1, token, 5)
    \/ RateAdd(1)

SpecFrame == Init /\ [][NextFrame]_vars

\* the partners update their profile
NextPartner ==
    \E partner \in Partners, partner_update \in PartnerUpdates :
        update_delivery_partner(partner, partner_update)

SpecPartner == Init /\ [][NextPartner]_vars

\* sign up, email verification and login
NextAuth ==
    \/ \E kind \in Kinds, account \in Accounts : add_user(kind, account)
    \/ \E kind \in Kinds, token \in VerifyTokens : verify_email(kind, token)
    \/ \E kind \in Kinds, account \in Accounts, password_ok \in BOOLEAN :
            generate_token(kind, account, password_ok)

SpecAuth == InitAuth /\ [][NextAuth]_vars

\* creates and the tag operations, served one at a time
NextTags ==
    \/ \E seller \in Submitters :
            StartCreate(1, 1, MaxTagged, MaxEvents, seller, Z1,
                        ExampleWeight)
    \/ CreateAdd(1)
    \/ create_event(1)
    \/ send_status_notification(1)
    \/ \E sid \in 1..MaxTagged, tag_name \in TagName : add_tag(sid, tag_name)
    \/ \E sid \in 1..MaxTagged, tag_name \in TagName : remove_tag(sid, tag_name)

SpecTags == Init /\ [][NextTags]_vars

\* a create, then up to MaxReqs review submissions in flight at once
NextReview ==
    \E r \in Reqs :
        \/ \E seller \in Submitters, destination \in Zips :
                StartCreate(r, 1, MaxShipments, MaxEvents, seller, destination,
                        ExampleWeight)
        \/ CreateAdd(r)
        \/ create_event(r)
        \/ send_status_notification(r)
        \/ \E token \in ReviewTokens, rating \in Ratings :
                StartRate(r, MaxReqs, token, rating)
        \/ RateAdd(r)

SpecReview == Init /\ [][NextReview]_vars

\* the payloads that take a shipment to its delivery
CapacityPayloads ==
    {[NoUpdate EXCEPT !.status = out_for_delivery]}
    \cup {[NoUpdate EXCEPT !.status = delivered, !.verification_code = c] :
            c \in PayloadCodes}

\* create, delivery and cancel of up to MaxAssigned shipments, served one at
\* a time
NextCapacity ==
    \/ \E seller \in Submitters, destination \in Zips :
            StartCreate(1, 1, MaxAssigned, MaxLogged, seller, destination,
                        ExampleWeight)
    \/ CreateAdd(1)
    \/ \E sid \in 1..MaxAssigned, upd \in CapacityPayloads, partner \in Partners :
            StartUpdate(1, 1, MaxLogged, sid, upd, partner)
    \/ UpdateVerify(1)
    \/ UpdateCommit(1)
    \/ \E sid \in 1..MaxAssigned, seller \in Submitters :
            StartCancel(1, 1, MaxLogged, sid, seller)
    \/ CancelCommit(1)
    \/ create_event(1)
    \/ send_status_notification(1)

SpecCapacity == Init /\ [][NextCapacity]_vars

\* the payloads of the updates that overlap a cancel
OverlapPayloads ==
    {[NoUpdate EXCEPT !.status = in_transit],
     [NoUpdate EXCEPT !.location = Z2]}

\* a create, then updates and cancels of the shipment, up to MaxReqs of them
\* in flight at once, each in a session of its own
NextOverlap ==
    \E r \in Reqs :
        \/ \E seller \in Submitters :
                StartCreate(r, 1, MaxShipments, MaxEvents, seller, Z1,
                            ExampleWeight)
        \/ CreateAdd(r)
        \/ \E sid \in 1..MaxShipments, upd \in OverlapPayloads,
                    partner \in Partners :
                StartUpdate(r, MaxReqs, MaxEvents, sid, upd, partner)
        \/ UpdateCommit(r)
        \/ \E sid \in 1..MaxShipments, seller \in Submitters :
                StartCancel(r, MaxReqs, MaxEvents, sid, seller)
        \/ CancelCommit(r)
        \/ create_event(r)
        \/ send_status_notification(r)

SpecOverlap == Init /\ [][NextOverlap]_vars

\* a create, then up to MaxReqs add_tag requests in flight at once
NextTagRace ==
    \E r \in Reqs :
        \/ \E seller \in Submitters :
                StartCreate(r, 1, MaxShipments, MaxEvents, seller, Z1,
                            ExampleWeight)
        \/ CreateAdd(r)
        \/ create_event(r)
        \/ send_status_notification(r)
        \/ \E sid \in 1..MaxShipments, tag_name \in TagName :
                StartAddTag(r, MaxReqs, sid, tag_name)
        \/ AddTagCreate(r)
        \/ AddTagLink(r)

SpecTagRace == Init /\ [][NextTagRace]_vars

\* the calls of check_rate_limit for one client, up to MaxReqs of them in
\* flight at once, while Redis answers every command
NextRate ==
    \/ \E r \in Reqs :
            \/ check_rate_limit(r, MaxReqs)
            \/ zremrangebyscore(r)
            \/ zcard(r)
            \/ zrange(r)
            \/ zadd(r)
            \/ expire(r)
    \/ Tick

SpecRate == Init /\ [][NextRate]_vars

\* the steps of the worker coroutines
worker(w) ==
    \/ worker_start(w)
    \/ worker_get(w)
    \/ worker_timeout(w)
    \/ worker_done(w)

\* a task queue that is started, given up to MaxTasks tasks and stopped
NextQueue ==
    \/ start
    \/ \E task \in Tasks : enqueue(task)
    \/ \E w \in Workers : worker(w)
    \/ stop
    \/ stop_join
    \/ stop_gather

SpecQueue == Init /\ [][NextQueue]_vars

\* the event loop runs every coroutine that is ready
SpecQueueLive ==
    /\ SpecQueue
    /\ \A w \in Workers : WF_vars(worker(w))
    /\ WF_vars(stop_join)
    /\ WF_vars(stop_gather)

\* creates with every weight, served one at a time
NextSubmit ==
    \/ \E seller \in Submitters, destination \in Zips, weight \in Weights :
            submit_shipment(1, 1, MaxTagged, MaxEvents, seller, destination, weight)
    \/ CreateAdd(1)
    \/ create_event(1)
    \/ send_status_notification(1)

SpecSubmit == Init /\ [][NextSubmit]_vars

\* creates only, up to MaxReqs of them in flight at once
NextCreate ==
    \E r \in Reqs :
        \/ \E seller \in Submitters, destination \in Zips :
                StartCreate(r, MaxReqs, MaxReqs, MaxEvents, seller, destination,
                        ExampleWeight)
        \/ CreateAdd(r)
        \/ create_event(r)
        \/ send_status_notification(r)

SpecCreate == Init /\ [][NextCreate]_vars

\* ------------------------------------------------------------ properties
Terminal(status) == status \in {delivered, cancelled}

ChainRank(status) ==
    CASE status = placed -> 1
      [] status = in_transit -> 2
      [] status = out_for_delivery -> 3
      [] status = delivered -> 4
      [] OTHER -> 0

\* the shipment of the snapshot never went through out_for_delivery
NeverOut(snap) ==
    /\ snap.row.status # out_for_delivery
    /\ \A k \in 1..Len(snap.events) : snap.events[k].status # out_for_delivery

GeneratedCodes == {ToString(c) : c \in CodeValues}

\* the last response answers an update that reached ShipmentService.update
\* on an existing shipment
UpdateAnswered ==
    /\ last.op = "update"
    /\ last.upd # NoUpdate
    /\ last.pre # NoSnap

\* ... submitted by the assigned partner for a shipment that is not terminal
\* and asking for delivered
DeliveryAttempt ==
    /\ UpdateAnswered
    /\ ~Terminal(last.pre.row.status)
    /\ last.actor = last.pre.row.partner
    /\ last.upd.status = delivered

\* C1: concurrent creates for a destination whose only eligible partner has
\* max_handling_capacity 1 never leave that partner with more than one
\* shipment (all but one of them fail with DeliveryPartnerNotAvailable).
C1_CapacityOneOneShipment ==
    \A p \in Partners :
        maxCap[p] = 1 =>
            Cardinality({i \in 1..Len(shipments) : shipments[i].partner = p}) <= 1

\* C2: an update of a delivered or cancelled shipment fails with
\* ValidationError whatever the payload and the acting partner, and leaves
\* the status, the estimated delivery and the event log as they were.
C2_TerminalUpdateRejected ==
    (UpdateAnswered /\ Terminal(last.pre.row.status)) =>
        (last.result = ValidationError /\ last.post = last.pre)

C2_Witness ==
    /\ UpdateAnswered
    /\ last.pre.row.status = delivered
    /\ last.actor = last.pre.row.partner
    /\ last.upd.status = in_transit
    /\ last.result = ValidationError

\* C3: a cancel by the owning seller of a delivered or cancelled shipment
\* fails, changes no status and appends no event.
C3_TerminalCancelRejected ==
    (last.op = "cancel" /\ Terminal(last.pre.row.status)
        /\ last.actor = last.pre.row.seller) =>
        (last.result # OK /\ last.post = last.pre)

\* C4: a row becomes delivered only in the commit of an update whose
\* verification_code is the code the update read from the store.
C4_DeliveredOnlyWithStoredCode ==
    [][\A i \in 1..Len(shipments) :
        (shipments[i].status # delivered /\ shipments'[i].status = delivered) =>
            \E r \in Reqs :
                /\ req[r].op = "update" /\ req[r].sid = i
                /\ req[r].upd.status = delivered
                /\ req[r].upd.verification_code # None
                /\ req[r].seen # None
                /\ req[r].upd.verification_code = req[r].seen]_vars

C4_Witness ==
    /\ UpdateAnswered
    /\ last.result = OK
    /\ last.pre.row.status # delivered
    /\ last.post.row.status = delivered
    /\ last.upd.verification_code = last.seen

\* C5: no accepted update moves a shipment to a status earlier in the chain
\* placed -> in_transit -> out_for_delivery -> delivered.
C5_NoBackwardUpdate ==
    (UpdateAnswered /\ last.result = OK
        /\ ChainRank(last.pre.row.status) > 0
        /\ ChainRank(last.post.row.status) > 0) =>
        ChainRank(last.post.row.status) >= ChainRank(last.pre.row.status)

\* C6: an update with status = cancelled submitted by a delivery partner
\* never leaves a shipment cancelled that was not cancelled before.
C6_NoCancelByUpdate ==
    (UpdateAnswered /\ last.upd.status = cancelled
        /\ last.pre.row.status # cancelled) =>
        last.post.row.status # cancelled

\* C7: a delivered update by the assigned partner on a non-terminal shipment
\* fails with ValidationError when it carries no code, and with InvalidToken
\* when it carries a code and the store holds none or another one; the
\* status and the event log stay as they were.
C7_DeliveryCodeErrors ==
    DeliveryAttempt =>
        /\ last.upd.verification_code = None =>
                (last.result = ValidationError /\ last.post = last.pre)
        /\ (last.upd.verification_code # None
                /\ last.seen # last.upd.verification_code) =>
                (last.result = InvalidToken /\ last.post = last.pre)

C7_Witness ==
    /\ DeliveryAttempt
    /\ last.upd.verification_code # None
    /\ last.seen # None
    /\ last.seen # last.upd.verification_code
    /\ last.result = InvalidToken

\* C8 as stated: marking delivered a shipment that never went through
\* out_for_delivery fails with ValidationError even if a code is supplied.
C8_NoCodeEverValidationError ==
    (DeliveryAttempt /\ NeverOut(last.pre)
        /\ last.upd.verification_code # None) =>
        last.result = ValidationError

\* C8 amended: marking delivered a shipment that never went through
\* out_for_delivery fails with InvalidToken when a code is supplied (with
\* ValidationError when none is), and the shipment is unchanged.
C8_NoCodeEverInvalidToken ==
    (DeliveryAttempt /\ NeverOut(last.pre)) =>
        /\ last.result = IF last.upd.verification_code # None
                         THEN InvalidToken ELSE ValidationError
        /\ last.post = last.pre

C8_Witness ==
    /\ DeliveryAttempt
    /\ NeverOut(last.pre)
    /\ last.upd.verification_code # None
    /\ last.result = InvalidToken

\* C9: a successful update that changes the status to out_for_delivery
\* leaves a code in 100000..999999 with a 24h expiry in the store.
C9_CodeStoredOnOutForDelivery ==
    (UpdateAnswered /\ last.result = OK
        /\ last.pre.row.status # out_for_delivery
        /\ last.post.row.status = out_for_delivery) =>
        (last.stored.code \in GeneratedCodes /\ last.stored.ttl = CodeTTL)

\* C10: once a new code has been generated for a shipment, a delivered
\* update that presents the previous, different code fails with InvalidToken
\* and does not deliver.
C10_PreviousCodeRejected ==
    (DeliveryAttempt
        /\ last.upd.verification_code # None
        /\ last.upd.verification_code = issued[last.sid].previous
        /\ issued[last.sid].previous # issued[last.sid].latest) =>
        (last.result = InvalidToken /\ last.post.row.status # delivered)

C10_Witness ==
    /\ DeliveryAttempt
    /\ last.upd.verification_code # None
    /\ last.upd.verification_code = issued[last.sid].previous
    /\ issued[last.sid].previous # issued[last.sid].latest
    /\ last.stored.code = issued[last.sid].latest
    /\ last.result = InvalidToken

\* the partners of a retrieval order that service d and had capacity left
WithCapacity(order, d) ==
    SelectSeq(order, LAMBDA p :
        d \in servicable[p] /\ current_handling_capacity(p) > 0)

\* C11: the partner a create is given services the shipment's destination,
\* had current_handling_capacity > 0 when assign_shipment checked it and is
\* the first such partner of the retrieval order; the row that is persisted
\* carries that partner.
C11_AssignedFirstEligible ==
    [][\A r \in Reqs :
        /\ (req[r].pc = "idle" /\ req'[r].pc = "add") =>
            LET row == req'[r].row
                able == WithCapacity(req'[r].order, row.destination)
            IN /\ row.destination \in servicable[row.partner]
               /\ current_handling_capacity(row.partner) > 0
               /\ able # <<>>
               /\ row.partner = Head(able)
        /\ (req[r].pc = "add" /\ req'[r].pc = "event") =>
            /\ shipments' = Append(shipments, req[r].row)
            /\ req[r].row.destination \in servicable[req[r].row.partner]]_vars

\* the first partner of the retrieval order was skipped for its capacity
C11_Witness ==
    /\ Len(shipments) = 2
    /\ shipments[1].partner = "p2"
    /\ shipments[2].partner = "p1"
    /\ shipments[2].destination = Z1
    /\ \E r \in Reqs : req[r].sid = 2 /\ req[r].order = <<"p2", "p1">>

\* no partner that services d has capacity left
NoPartnerFor(d) ==
    \A p \in Partners :
        d \in servicable[p] => current_handling_capacity(p) <= 0

\* the step starts a create for destination d
CreateStarts(d) ==
    \/ \E r \in Reqs : /\ req[r].pc = "idle" /\ req'[r].pc = "add"
                        /\ req'[r].row.destination = d
    \/ /\ req' = req /\ last' # last
       /\ last'.op = "create" /\ last'.row.destination = d

C13_CreateResult ==
    [][/\ \A r \in Reqs :
            (req[r].op = "create" /\ req[r].pc = "add" /\ req'[r].pc = "event") =>
                current_handling_capacity(req[r].row.partner)'
                    = current_handling_capacity(req[r].row.partner) - 1
       /\ (last' # last /\ last'.op = "create" /\ last'.result = OK) =>
            LET post == last'.post
            IN /\ post.row.status = placed
               /\ post.row.seller = last'.actor
               /\ Len(post.events) = 1
               /\ post.events[1].status = placed
               /\ post.events[1].location = post.row.destination
               /\ post.events[1].description
                    = "assigned to " \o post.row.partner]_vars

C13_Witness ==
    /\ last.op = "create"
    /\ last.result = OK
    /\ Len(last.post.events) = 1
    /\ last.post.events[1].description = "assigned to p2"
    /\ current_handling_capacity("p2") = maxCap["p2"] - 1

\* the payload asks for an event: another status or a location
AsksEvent(pre, upd) ==
    \/ upd.status # None /\ upd.status # pre.row.status
    \/ upd.location # NoLoc

\* C14: an accepted update appends exactly one event when its status differs
\* from the current one or it supplies a location, and none otherwise.
C14_EventIffStatusOrLocation ==
    (UpdateAnswered /\ last.result = OK) =>
        /\ Len(last.post.events)
            = Len(last.pre.events) + IF AsksEvent(last.pre, last.upd) THEN 1 ELSE 0
        /\ SubSeq(last.post.events, 1, Len(last.pre.events)) = last.pre.events

\* an accepted update whose status is the current one leaves the log alone
C14_Witness ==
    /\ UpdateAnswered
    /\ last.result = OK
    /\ last.upd.status = last.pre.row.status
    /\ last.upd.location = NoLoc
    /\ last.pre.events # <<>>
    /\ last.post.events = last.pre.events

\* the event of a log with the greatest creation timestamp
MostRecent(evs) ==
    CHOOSE e \in {evs[k] : k \in 1..Len(evs)} :
        \A k \in 1..Len(evs) : e.created_at >= evs[k].created_at

\* the last response accepted an update or a cancel that appended an event
\* without a supplied location
AppendedWithoutLocation ==
    /\ last.op \in {"update", "cancel"}
    /\ last.result = OK
    /\ last.upd.location = NoLoc
    /\ Len(last.post.events) = Len(last.pre.events) + 1

\* C15: an event appended without a supplied location has the location of
\* the most recently created prior event of the shipment, or the destination
\* when there is no prior event.
C15_InheritsMostRecentLocation ==
    AppendedWithoutLocation =>
        last.post.events[Len(last.post.events)].location
            = IF last.pre.events = <<>> THEN last.pre.row.destination
              ELSE MostRecent(last.pre.events).location

C17_AppendOnly ==
    [][/\ Len(events') >= Len(events)
       /\ \A sid \in 1..Len(events) :
            /\ Len(events'[sid]) >= Len(events[sid])
            /\ SubSeq(events'[sid], 1, Len(events[sid])) = events[sid]
       /\ (last' # last /\ last'.op \in {"update", "cancel"}
            /\ last'.result = OK
            /\ last'.post.row.status # last'.pre.row.status) =>
            /\ Len(last'.post.events) = Len(last'.pre.events) + 1
            /\ last'.post.events[Len(last'.post.events)].status
                    = last'.post.row.status]_vars

C17_Witness ==
    /\ last.op = "cancel"
    /\ last.result = OK
    /\ last.pre.row.status = in_transit
    /\ last.post.row.status = cancelled
    /\ Len(last.pre.events) = 2
    /\ SubSeq(last.post.events, 1, 2) = last.pre.events
    /\ last.post.events[3].status = cancelled

\* C18: a cancel by a seller who does not own the shipment fails with
\* ClientNotAuthorized and leaves the status and the event log as they were.
C18_CancelByOtherSeller ==
    (last.op = "cancel" /\ last.pre # NoSnap
        /\ last.actor # last.pre.row.seller) =>
        (last.result = ClientNotAuthorized /\ last.post = last.pre)

C18_Witness ==
    /\ last.op = "cancel"
    /\ last.pre # NoSnap
    /\ last.actor # last.pre.row.seller
    /\ last.pre.row.status = out_for_delivery
    /\ last.result = ClientNotAuthorized

\* C19: an update of a shipment that is not terminal by a partner other than
\* the assigned one is answered with ClientNotAuthorized whatever the
\* payload, and the step changes no row, no event and no stored code.
C19_UpdateByOtherPartner ==
    [][(last' # last /\ last'.op = "update" /\ last'.upd # NoUpdate
        /\ last'.pre # NoSnap
        /\ ~Terminal(last'.pre.row.status)
        /\ last'.actor # last'.pre.row.partner) =>
            /\ last'.result = ClientNotAuthorized
            /\ last'.post = last'.pre
            /\ shipments' = shipments
            /\ events' = events
            /\ store' = store]_vars

\* refused although the payload carries the code that is stored
C19_Witness ==
    /\ UpdateAnswered
    /\ ~Terminal(last.pre.row.status)
    /\ last.actor # last.pre.row.partner
    /\ last.upd.status = delivered
    /\ last.upd.verification_code # None
    /\ last.upd.verification_code = last.stored.code
    /\ last.result = ClientNotAuthorized

\* C20: once no request is in flight, every shipment has its initial event
\* and the status of its row is the status of its latest event, also after
\* a request whose event append failed.
C20_NoPartialCommit ==
    InFlight = {} =>
        \A sid \in 1..Len(shipments) :
            /\ events[sid] # <<>>
            /\ events[sid][Len(events[sid])].status = shipments[sid].status

\* C21: when the dispatch of a notification fails, the request still
\* answers OK, the step undoes no write, and the response shows the event the
\* operation appended, carrying the status the shipment now has.
C21_NotificationFailureHarmless ==
    [][\A r \in Reqs :
        (req[r].pc = "notify" /\ faults' = faults + 1) =>
            /\ last'.op = req[r].op
            /\ last'.result = OK
            /\ shipments' = shipments
            /\ events' = events
            /\ Len(last'.post.events) = Len(last'.pre.events) + 1
            /\ last'.post.events[Len(last'.post.events)].status
                    = last'.post.row.status]_vars

\* a cancel whose notification could not be queued
C21_Witness ==
    /\ faults = 1
    /\ last.op = "cancel"
    /\ last.result = OK
    /\ last.post.row.status = cancelled
    /\ Len(last.post.events) = Len(last.pre.events) + 1
    /\ last.post.events[Len(last.post.events)].status = cancelled

\* the shipments of partner p that are not delivered
NotDelivered(p) ==
    {i \in 1..Len(shipments) :
        shipments[i].partner = p /\ shipments[i].status # delivered}

\* C22: a partner's current_handling_capacity is max_handling_capacity minus
\* the number of its shipments that are not delivered; a step that cancels a
\* shipment does not raise it, a step that delivers one raises it by one.
C22_CapacityCountsUndelivered ==
    [][\A p \in Partners :
        /\ current_handling_capacity(p)
                = maxCap[p] - Cardinality(NotDelivered(p))
        /\ \A i \in 1..Len(shipments) :
            /\ (shipments[i].partner = p
                    /\ shipments[i].status \notin {delivered, cancelled}
                    /\ shipments'[i].status = cancelled) =>
                current_handling_capacity(p)' = current_handling_capacity(p)
            /\ (shipments[i].partner = p /\ shipments[i].status # delivered
                    /\ shipments'[i].status = delivered) =>
                current_handling_capacity(p)'
                    = current_handling_capacity(p) + 1]_vars

\* a cancelled shipment still takes the only slot of its partner
C22_Witness ==
    /\ Len(shipments) = 1
    /\ shipments[1].partner = "p2"
    /\ shipments[1].status = cancelled
    /\ current_handling_capacity("p2") = 0

\* C24: for a shipment that does not carry tag t, add_tag(shipment, t)
\* followed by remove_tag(shipment, t) leaves the tag set of every shipment
\* as it was before the add.
C24_AddThenRemoveRestores ==
    [][(/\ side.op = "add_tag" /\ side.result = OK
        /\ side.arg \notin side.pre[side.target]
        /\ TagSets = side.post
        /\ side'.op = "remove_tag"
        /\ side'.target = side.target /\ side'.arg = side.arg) =>
            /\ side'.result = OK
            /\ TagSets' = side.pre]_vars

\* the tag was removed again while both shipments carried the other tag
C24_Witness ==
    /\ side.op = "remove_tag"
    /\ side.result = OK
    /\ side.arg = "express"
    /\ side.target = 1
    /\ Len(shipments) = 2
    /\ TagSets = <<{"fragile"}, {"fragile"}>>

\* C25: add_tag of a name the shipment carries fails with
\* AlreadyExistsError, remove_tag of a name it does not carry fails with
\* EntityNotFound, and neither changes a tag set.
C25_TagErrors ==
    /\ (side.op = "add_tag" /\ side.target \in DOMAIN side.pre
            /\ side.arg \in side.pre[side.target]) =>
            (side.result = AlreadyExistsError /\ side.post = side.pre)
    /\ (side.op = "remove_tag" /\ side.target \in DOMAIN side.pre
            /\ side.arg \notin side.pre[side.target]) =>
            (side.result = EntityNotFound /\ side.post = side.pre)

C25_Witness ==
    /\ side.op = "add_tag"
    /\ side.target \in DOMAIN side.pre
    /\ side.arg \in side.pre[side.target]
    /\ side.result = AlreadyExistsError
    /\ TagSets = side.pre

\* a token that decodes for the review serializer
ValidReviewToken(token) == token.salt = "review" /\ ~token.expired

\* C26: no shipment has more than one review, and a review submitted with a
\* valid token for a shipment that has one fails with AlreadyExistsError and
\* leaves table review as it was.
C26_OneReviewPerShipment ==
    /\ \A sid \in 1..Len(shipments) : Cardinality(ReviewsOf(sid)) <= 1
    /\ (side.op = "rate" /\ ValidReviewToken(side.arg)
            /\ \E i \in 1..Len(side.pre) :
                    side.pre[i].shipment_id = side.target) =>
            (side.result = AlreadyExistsError /\ side.post = side.pre)

C26_Witness ==
    /\ side.op = "rate"
    /\ ValidReviewToken(side.arg)
    /\ Len(side.pre) = 1
    /\ side.pre[1].shipment_id = side.target
    /\ side.result = AlreadyExistsError
    /\ reviews = side.pre

\* C27: a review submission is never answered with the raw
\* IntegrityError of the unique constraint, also when two of them run
\* concurrently for the same shipment.
C27_NoRawIntegrityError ==
    side.op = "rate" =>
        side.result \in {OK, AlreadyExistsError, InvalidToken, EntityNotFound}

\* C23: no step of an update, a cancel, a tag operation or a review
\* submission changes the seller or the delivery partner of a shipment that
\* exists.
C23_OwnerAndPartnerFixed ==
    [][\A i \in 1..Len(shipments) :
        /\ shipments'[i].seller = shipments[i].seller
        /\ shipments'[i].partner = shipments[i].partner]_vars

\* cancelled, tagged and reviewed, and still of the same seller and partner
C23_Witness ==
    /\ Len(shipments) = 1
    /\ shipments[1].status = cancelled
    /\ shipments[1].seller = "s1"
    /\ shipments[1].partner = "p2"
    /\ Len(events[1]) = 3
    /\ TagsOf(1) = {"express"}
    /\ ReviewsOf(1) # {}

NoDuplicates(rows) ==
    \A j, k \in 1..Len(rows) : rows[j] = rows[k] => j = k

C29_SameStateSamePartner ==
    \A r1, r2 \in Reqs :
        (/\ shipments = <<>>
         /\ req[r1].op = "create" /\ req[r1].pc = "add"
         /\ req[r2].op = "create" /\ req[r2].pc = "add"
         /\ req[r1].row.destination = req[r2].row.destination) =>
            req[r1].row.partner = req[r2].row.partner

\* C30: a login with the right password for a registered account fails with
\* ClientNotVerified as long as no verify_email with a valid token has
\* succeeded for the account, and succeeds once one has.
C30_TokenRequiresVerifiedEmail ==
    (side.op = "token" /\ side.arg.password_ok
        /\ side.target \in AccountsOf(side.arg.kind)
        /\ users[side.target].registered) =>
        side.result = IF users[side.target].verify_succeeded
                      THEN OK ELSE ClientNotVerified

C30_Witness ==
    /\ side.op = "token"
    /\ side.arg.password_ok
    /\ side.target = "p1"
    /\ side.arg.kind = "partner"
    /\ users["p1"].registered
    /\ ~users["p1"].verify_succeeded
    /\ users["s1"].verify_succeeded
    /\ side.result = ClientNotVerified

\* C31: an email verification with an invalid or expired token is answered
\* with InvalidToken and HTTP status 400, and changes no account.
C31_InvalidVerifyToken400 ==
    [][(side'.op = "verify_email"
        /\ decode_url_safe_token(side'.arg, None) = <<>>) =>
            /\ side'.result = InvalidToken
            /\ status_code(side'.result) = 400
            /\ users' = users]_vars

\* C32: a create whose weight is above 25 kg or not above 0 is answered with
\* a validation error and writes no shipment and no event; a create of
\* weight 25.0 is not refused for its weight.
C32_WeightBounds ==
    [][(last' # last /\ last'.op = "create") =>
        LET weight == last'.row.weight
        IN /\ (weight > MaxWeight \/ weight <= 0) =>
                /\ last'.result = RequestValidationError
                /\ status_code(last'.result) = 422
                /\ shipments' = shipments
                /\ events' = events
                /\ req' = req
           /\ (weight > 0 /\ weight <= MaxWeight) =>
                last'.result \in {OK, DeliveryPartnerNotAvailable}]_vars

\* a shipment of 25.0 kg was created, then one of 25.01 kg was refused
C32_Witness ==
    /\ last.op = "create"
    /\ last.row.weight = MaxWeight + 1
    /\ last.result = RequestValidationError
    /\ Len(shipments) = 1
    /\ shipments[1].weight = MaxWeight
    /\ Len(events[1]) = 1

\* C33: with requests served one at a time and max_handling_capacity never
\* edited, once no request is in flight no partner has more shipments that
\* are not delivered than its max_handling_capacity.
C33_CapacityNeverNegative ==
    InFlight = {} =>
        \A p \in Partners : current_handling_capacity(p) >= 0

\* C34: the stored verification code of a shipment is written only by an
\* update that changes the status of the shipment to out_for_delivery; an
\* accepted update that leaves the status as it was writes none.
C34_CodeOnlyOnTransition ==
    [][\A sid \in 1..Len(store) :
        (store'[sid] # store[sid] /\ store'[sid].code # None) =>
            \E r \in Reqs :
                /\ req[r].op = "update" /\ req[r].sid = sid
                /\ req[r].upd.status = out_for_delivery
                /\ req[r].old.row.status # out_for_delivery]_vars

\* C35: when an update by the assigned partner overlaps a cancel by the
\* owning seller of a shipment whose create has appended its event, no event
\* with a status other than cancelled follows the cancellation event, and
\* once no request is in flight the status of the cancelled shipment is
\* cancelled.
C35_CancelIsFinal ==
    \A sid \in 1..Len(shipments) :
        \A k \in 2..Len(events[sid]) :
            (events[sid][1].status = placed
                /\ events[sid][k].status = cancelled) =>
                /\ \A j \in (k + 1)..Len(events[sid]) :
                        events[sid][j].status = cancelled
                /\ InFlight = {} => shipments[sid].status = cancelled

\* C36: under concurrent add_tag calls with the same name on the same
\* shipment, the shipment never carries two tags with the same name, also
\* when no Tag row of that name existed before the calls.
C36_NoDuplicateTagName ==
    \A x, y \in shipment_tag :
        (x[1] = y[1] /\ tagrows[x[2]] = tagrows[y[2]]) => x = y

\* C37: with requests served one at a time, the shipment a create, an
\* update or a cancel has answered for has events, and the status of the
\* event created last is the status of its row.
C37_LatestEventHasStatus ==
    (last.op \in {"create", "update", "cancel"} /\ last.post # NoSnap) =>
        /\ last.post.events # <<>>
        /\ MostRecent(last.post.events).status = last.post.row.status

\* an update that only supplied a location, after a change of status
C37_Witness ==
    /\ UpdateAnswered
    /\ last.result = OK
    /\ last.upd.status = None
    /\ last.upd.location = Z2
    /\ last.post.row.status = in_transit
    /\ Len(last.post.events) = 3
    /\ MostRecent(last.post.events) = last.post.events[3]
    /\ last.post.events[3].status = in_transit

\* the calls that were allowed and whose second lies in t .. t + window - 1
AllowedIn(t) ==
    {i \in 1..Len(rate_log) :
        /\ rate_log[i].allowed
        /\ rate_log[i].now \in t..(t + RateLimit.window - 1)}

\* C38: of the calls of check_rate_limit for a client that fall into any
\* interval of window seconds, at most requests are allowed, also when they
\* arrive within one second or overlap.
C38_AtMostRequestsPerWindow ==
    \A t \in 0..MaxClock : Cardinality(AllowedIn(t)) <= RateLimit.requests

\* C39: a call of stop() on a started queue returns, whatever the number of
\* tasks that are pending when it is made.
C39_StopReturns ==
    (stopper.pc = "join") ~> (stopper.pc = "returned")

====
